---------------------------- MODULE Spec2Model ----------------------------
(***************************************************************************)
(* Model of the ABA analytics dashboard (src/app/page.tsx) and of the data *)
(* it reads (src/lib/mockData.ts).                                         *)
(*                                                                         *)
(* State: the four module-level collections of mockData.ts (clients,       *)
(* allPrograms, allTargets, dataPoints) and the React state of Dashboard   *)
(* (filters, drillDownTarget, theme, the three search strings).  The       *)
(* useMemo values (filteredData, stats, cumulativeGraphData,               *)
(* programBreakdown, targetDrillDown, ...) are functions of that state and *)
(* are operators here, recomputed in every state as React recomputes them  *)
(* on every render.                                                        *)
(*                                                                         *)
(* Three specifications share the state:                                   *)
(*   Spec        the dashboard as the user drives it: generated data,      *)
(*               every UI handler of page.tsx as an action;                *)
(*   SpecFilter  the filter predicate as a pure function: any event log    *)
(*               (unresolvable ids included) against any filter value;     *)
(*   SpecAgg     the aggregators as pure functions: any event log          *)
(*               (zero-trial events, any order, several years).            *)
(***************************************************************************)
EXTENDS Integers, Sequences, FiniteSets, TLC

VARIABLES clients, allPrograms, allTargets, dataPoints,
          filters, drillDownTarget, theme,
          clientSearch, programSearch, targetSearch

vars == <<clients, allPrograms, allTargets, dataPoints,
          filters, drillDownTarget, theme,
          clientSearch, programSearch, targetSearch>>

data == <<clients, allPrograms, allTargets, dataPoints>>

(***************************************************************************)
(* Bounds of the model.                                                    *)
(***************************************************************************)
\* Calendar granularity: a month has DaysPerMonth distinguishable instants.
DaysPerMonth == 2
\* Longest event log drawn for the pure-function specifications.
MaxEvents == 2
\* Most values selected over all five selection lists by single toggles.
MaxSelected == 2
\* Most search boxes holding text at once.
MaxTyped == 1

(***************************************************************************)
(* JavaScript values.                                                      *)
(***************************************************************************)
\* Array.prototype.find's result when nothing matches.
undefined == [undefined |-> TRUE]
\* useState<string | null>(null): the null of drillDownTarget.
null == "null"

\* A JavaScript number that may be fractional, kept exact as num / den; the
\* rounding error of the double arithmetic (below 1e-12 here) is left out.
RECURSIVE Gcd(_, _)
Gcd(a, b) == IF b = 0 THEN a ELSE Gcd(b, a % b)

Num(a, b) ==
  IF a = 0 THEN [num |-> 0, den |-> 1]
  ELSE [num |-> a \div Gcd(a, b), den |-> b \div Gcd(a, b)]

\* Number.prototype.toFixed(1) of the quotient num/den * 100 of two
\* non-negative integers: 0/0 is NaN, n/0 is Infinity, otherwise the value
\* rounded to one decimal (the larger candidate on a tie), as a string.  No
\* quotient of the trial counts drawn below lies on a tie.
ToFixed1Percent(num, den) ==
  IF den = 0
  THEN [s |-> IF num = 0 THEN "NaN" ELSE "Infinity"]
  ELSE LET tenths == (2000 * num + den) \div (2 * den)
       IN [s |-> ToString(tenths \div 10) \o "." \o ToString(tenths % 10)]

(***************************************************************************)
(* Dates.  A Date is its getTime(), counted in instants of which a month   *)
(* holds DaysPerMonth; instant 0 is startDate, 1 January StartYear.        *)
(***************************************************************************)
StartYear == 2024
\* subMonths(new Date(), 6) of the default date range.
WindowMonths == 6
\* t.mastery >= 80 of masteredTargets and of the Mastered Targets card.
MasteredAt == 80
\* min and max of the two range inputs.
SliderMin == 0
SliderMax == 100

MonthNames == <<"Jan", "Feb", "Mar", "Apr", "May", "Jun",
                "Jul", "Aug", "Sep", "Oct", "Nov", "Dec">>

MonthIndex(t) == (t \div DaysPerMonth) % 12
YearOf(t) == StartYear + (t \div DaysPerMonth) \div 12

\* new Date(year, monthIndex, 1).getTime()
DateOf(year, monthIndex) == ((year - StartYear) * 12 + monthIndex) * DaysPerMonth

\* date-fns format(date, 'MMM yyyy'): the label "Jan 2024".
FormatMonth(t) == MonthNames[MonthIndex(t) + 1] \o " " \o ToString(YearOf(t))

\* new Date(label).getTime() for a label format(date, 'MMM yyyy') produced:
\* the first instant of that month of that year.  The label is read back
\* from its text: the month by its name, the year by its digits.
MonthLabels ==
  [p \in (1..12) \X (StartYear..(StartYear + 3)) |->
     MonthNames[p[1]] \o " " \o ToString(p[2])]

ParseMonth(label) ==
  LET h == CHOOSE p \in DOMAIN MonthLabels : MonthLabels[p] = label
  IN DateOf(h[2], h[1] - 1)

\* date-fns subMonths(date, n)
SubMonths(t, n) == t - n * DaysPerMonth

\* Mutant of IsWithinInterval: the end of the interval is left out.
IsWithinIntervalOpenEnd(t, range) == range.start <= t /\ t < range.end

\* date-fns isWithinInterval(date, {start, end}): both ends inclusive.
IsWithinInterval(t, range) == range.start <= t /\ t <= range.end


(***************************************************************************)
(* Array helpers.                                                          *)
(***************************************************************************)
\* Array.prototype.includes
Includes(arr, v) == \E i \in 1..Len(arr) : arr[i] = v

\* Array.prototype.find(x => x.id === id)
Find(table, id) ==
  IF \E i \in 1..Len(table) : table[i].id = id
  THEN table[CHOOSE i \in 1..Len(table) :
               /\ table[i].id = id
               /\ \A j \in 1..(i - 1) : table[j].id # id]
  ELSE undefined

\* Array.prototype.map
Map(arr, F(_)) == [i \in 1..Len(arr) |-> F(arr[i])]

\* Array.prototype.reduce((sum, d) => sum + F(d), 0)
SumOver(arr, F(_)) ==
  LET sum[i \in 0..Len(arr)] == IF i = 0 THEN 0 ELSE sum[i - 1] + F(arr[i])
  IN sum[Len(arr)]

\* new Set(arr): the distinct values (its size is Cardinality).
SetOf(arr) == {arr[i] : i \in 1..Len(arr)}

\* The keys of an object filled in one pass over arr, in the order
\* Object.values() walks them: the order of first insertion.
RECURSIVE FirstSeen(_)
FirstSeen(arr) ==
  IF arr = << >> THEN << >>
  ELSE LET init == FirstSeen(SubSeq(arr, 1, Len(arr) - 1))
           last == arr[Len(arr)]
       IN IF Includes(init, last) THEN init ELSE Append(init, last)

\* Array.prototype.sort(compare): stable (ECMAScript 2019), ascending in
\* compare; Cmp(a, b) > 0 places a after b.  An insertion sort: each element
\* goes behind the last one that does not compare greater than it.
Insert(sorted, x, Cmp(_, _)) ==
  LET after == {i \in 1..Len(sorted) : Cmp(sorted[i], x) <= 0}
      k == IF after = {} THEN 0 ELSE CHOOSE i \in after : \A j \in after : j <= i
  IN SubSeq(sorted, 1, k) \o <<x>> \o SubSeq(sorted, k + 1, Len(sorted))

Sort(arr, Cmp(_, _)) ==
  LET pre[i \in 0..Len(arr)] ==
        IF i = 0 THEN << >> ELSE Insert(pre[i - 1], arr[i], Cmp)
  IN pre[Len(arr)]

\* Array.prototype.slice(0, n)
Slice0(arr, n) == SubSeq(arr, 1, IF Len(arr) < n THEN Len(arr) ELSE n)

(***************************************************************************)
(* filteredData: the Filter Predicate Evaluator.                           *)
(***************************************************************************)
\* Mutant of Passes: the client test lacks its length check, so that an
\* empty client selection lets no event through.
PassesEmptySelectsNone(f, dp) ==
  IF ~Includes(f.clientIds, dp.clientId) THEN FALSE
  ELSE IF Len(f.programIds) # 0 /\ ~Includes(f.programIds, dp.programId) THEN FALSE
  ELSE IF Len(f.targetIds) # 0 /\ ~Includes(f.targetIds, dp.targetId) THEN FALSE
  ELSE
    LET target == Find(allTargets, dp.targetId)
        program == Find(allPrograms, dp.programId)
        client == Find(clients, dp.clientId)
    IN IF target # undefined
          /\ (target.mastery < f.minMastery \/ target.mastery > f.maxMastery)
       THEN FALSE
       ELSE IF program # undefined /\ Len(f.categories) # 0
               /\ ~Includes(f.categories, program.category)
       THEN FALSE
       ELSE IF client # undefined /\ Len(f.therapists) # 0
               /\ ~Includes(f.therapists, client.therapist)
       THEN FALSE
       ELSE IF ~IsWithinInterval(dp.date, f.dateRange) THEN FALSE
       ELSE TRUE

\* Mutant of Passes: an event whose target, program or client is not found
\* is dropped instead of skipping the test that needs the row.
PassesFailClosed(f, dp) ==
  IF Len(f.clientIds) # 0 /\ ~Includes(f.clientIds, dp.clientId) THEN FALSE
  ELSE IF Len(f.programIds) # 0 /\ ~Includes(f.programIds, dp.programId) THEN FALSE
  ELSE IF Len(f.targetIds) # 0 /\ ~Includes(f.targetIds, dp.targetId) THEN FALSE
  ELSE
    LET target == Find(allTargets, dp.targetId)
        program == Find(allPrograms, dp.programId)
        client == Find(clients, dp.clientId)
    IN IF target = undefined THEN FALSE
       ELSE IF target.mastery < f.minMastery \/ target.mastery > f.maxMastery
       THEN FALSE
       ELSE IF program = undefined THEN FALSE
       ELSE IF Len(f.categories) # 0 /\ ~Includes(f.categories, program.category)
       THEN FALSE
       ELSE IF client = undefined THEN FALSE
       ELSE IF Len(f.therapists) # 0 /\ ~Includes(f.therapists, client.therapist)
       THEN FALSE
       ELSE IF ~IsWithinInterval(dp.date, f.dateRange) THEN FALSE
       ELSE TRUE

\* Mutant of Passes: the mastery test is applied only to a range in order.
PassesSkipsInvertedRange(f, dp) ==
  IF Len(f.clientIds) # 0 /\ ~Includes(f.clientIds, dp.clientId) THEN FALSE
  ELSE IF Len(f.programIds) # 0 /\ ~Includes(f.programIds, dp.programId) THEN FALSE
  ELSE IF Len(f.targetIds) # 0 /\ ~Includes(f.targetIds, dp.targetId) THEN FALSE
  ELSE
    LET target == Find(allTargets, dp.targetId)
        program == Find(allPrograms, dp.programId)
        client == Find(clients, dp.clientId)
    IN IF target # undefined /\ f.minMastery <= f.maxMastery
          /\ (target.mastery < f.minMastery \/ target.mastery > f.maxMastery)
       THEN FALSE
       ELSE IF program # undefined /\ Len(f.categories) # 0
               /\ ~Includes(f.categories, program.category)
       THEN FALSE
       ELSE IF client # undefined /\ Len(f.therapists) # 0
               /\ ~Includes(f.therapists, client.therapist)
       THEN FALSE
       ELSE IF ~IsWithinInterval(dp.date, f.dateRange) THEN FALSE
       ELSE TRUE

\* The callback of dataPoints.filter, one early return after the other.
Passes(f, dp) ==
  IF Len(f.clientIds) # 0 /\ ~Includes(f.clientIds, dp.clientId) THEN FALSE
  ELSE IF Len(f.programIds) # 0 /\ ~Includes(f.programIds, dp.programId) THEN FALSE
  ELSE IF Len(f.targetIds) # 0 /\ ~Includes(f.targetIds, dp.targetId) THEN FALSE
  ELSE
    LET target == Find(allTargets, dp.targetId)
        program == Find(allPrograms, dp.programId)
        client == Find(clients, dp.clientId)
    IN IF target # undefined
          /\ (target.mastery < f.minMastery \/ target.mastery > f.maxMastery)
       THEN FALSE
       ELSE IF program # undefined /\ Len(f.categories) # 0
               /\ ~Includes(f.categories, program.category)
       THEN FALSE
       ELSE IF client # undefined /\ Len(f.therapists) # 0
               /\ ~Includes(f.therapists, client.therapist)
       THEN FALSE
       ELSE IF ~IsWithinInterval(dp.date, f.dateRange) THEN FALSE
       ELSE TRUE

\* Mutant of FilterBy: each kept event is put in front of those kept before.
FilterByUnshift(f) ==
  LET kept == SelectSeq(dataPoints, LAMBDA dp : Passes(f, dp))
  IN [i \in 1..Len(kept) |-> kept[Len(kept) + 1 - i]]

\* dataPoints.filter(callback)
FilterBy(f) == SelectSeq(dataPoints, LAMBDA dp : Passes(f, dp))

filteredData == FilterBy(filters)

(***************************************************************************)
(* stats: the Summary Counter.                                             *)
(***************************************************************************)
\* Mutant of activeClients: the clients of the filtered subset are counted
\* whether or not clients are selected.
activeClientsCounted ==
  Cardinality(SetOf(Map(filteredData, LAMBDA d : d.clientId)))

activeClients ==
  IF Len(filters.clientIds) # 0
  THEN Len(filters.clientIds)
  ELSE Cardinality(SetOf(Map(filteredData, LAMBDA d : d.clientId)))

\* Mutant of totalTrials: the incorrect trials are left out of the sum.
totalTrialsCorrectOnly == SumOver(filteredData, LAMBDA d : d.correct)

totalTrials == SumOver(filteredData, LAMBDA d : d.correct + d.incorrect)

correctTrials == SumOver(filteredData, LAMBDA d : d.correct)

avgAccuracy ==
  IF totalTrials > 0 THEN Num(correctTrials * 100, totalTrials) ELSE Num(0, 1)

activePrograms == Cardinality(SetOf(Map(filteredData, LAMBDA d : d.programId)))

\* Mutant of masteredTargets: the events of mastered targets are counted,
\* not the targets.
masteredTargetsPerEvent ==
  Len(SelectSeq(filteredData,
        LAMBDA d : LET t == Find(allTargets, d.targetId)
                   IN t # undefined /\ t.mastery >= MasteredAt))

masteredTargets ==
  Cardinality({tid \in SetOf(Map(filteredData, LAMBDA d : d.targetId)) :
                 LET t == Find(allTargets, tid)
                 IN t # undefined /\ t.mastery >= MasteredAt})

stats ==
  [activeClients |-> activeClients,
   avgAccuracy |-> avgAccuracy,
   activePrograms |-> activePrograms,
   masteredTargets |-> masteredTargets]

(***************************************************************************)
(* cumulativeGraphData: the Monthly Cumulative Reducer.                    *)
(***************************************************************************)
\* monthlyData after the forEach, as Object.values() lists it.
monthlyData ==
  LET keys == FirstSeen(Map(filteredData, LAMBDA dp : FormatMonth(dp.date)))
      of(key) == SelectSeq(filteredData, LAMBDA dp : FormatMonth(dp.date) = key)
  IN Map(keys, LAMBDA key :
       [correct |-> SumOver(of(key), LAMBDA dp : dp.correct),
        incorrect |-> SumOver(of(key), LAMBDA dp : dp.incorrect),
        date |-> key])

\* (a, b) => new Date(a.date).getTime() - new Date(b.date).getTime()
ByMonth(a, b) == ParseMonth(a.date) - ParseMonth(b.date)

\* Mutant of sortedMonths: the buckets stay in the order of insertion.
sortedMonthsAsInserted == monthlyData

sortedMonths == Sort(monthlyData, ByMonth)

\* Mutant of CumulativePoint: each point carries its own month's sums.
CumulativePointOfMonth(sorted, i) ==
  LET total == sorted[i].correct + sorted[i].incorrect
  IN [month |-> sorted[i].date,
      cumulative |-> sorted[i].correct,
      accuracy |-> IF total > 0 THEN ToFixed1Percent(sorted[i].correct, total)
                   ELSE Num(0, 1),
      trials |-> total]

\* The running totals of the final map, at its i-th item.
CumulativePoint(sorted, i) ==
  LET cumulativeCorrect == SumOver(SubSeq(sorted, 1, i), LAMBDA item : item.correct)
      cumulativeIncorrect == SumOver(SubSeq(sorted, 1, i), LAMBDA item : item.incorrect)
      total == cumulativeCorrect + cumulativeIncorrect
  IN [month |-> sorted[i].date,
      cumulative |-> cumulativeCorrect,
      accuracy |-> IF total > 0 THEN ToFixed1Percent(cumulativeCorrect, total)
                   ELSE Num(0, 1),
      trials |-> total]

cumulativeGraphData ==
  [i \in 1..Len(sortedMonths) |-> CumulativePoint(sortedMonths, i)]

(***************************************************************************)
(* programBreakdown: the Program Breakdown Reducer.                        *)
(***************************************************************************)
\* Mutant of ByTotalDesc: the rows are put in ascending order.
ByTotalAsc(a, b) == a.total - b.total

\* (a, b) => b.total - a.total
ByTotalDesc(a, b) == b.total - a.total

\* The accuracy of a breakdown or drill-down row: the division is not guarded.
RowAccuracy(correct, incorrect) == ToFixed1Percent(correct, correct + incorrect)

\* Mutant of programStats: an event's counts replace the group's counts
\* instead of being added to them.
programStatsLastEvent ==
  LET known == SelectSeq(filteredData,
                 LAMBDA dp : Find(allPrograms, dp.programId) # undefined)
      keys == FirstSeen(Map(known, LAMBDA dp : dp.programId))
      of(id) == SelectSeq(known, LAMBDA dp : dp.programId = id)
  IN Map(keys, LAMBDA id :
       [correct |-> of(id)[Len(of(id))].correct,
        incorrect |-> of(id)[Len(of(id))].incorrect,
        program |-> Find(allPrograms, id).name])

programStats ==
  LET known == SelectSeq(filteredData,
                 LAMBDA dp : Find(allPrograms, dp.programId) # undefined)
      keys == FirstSeen(Map(known, LAMBDA dp : dp.programId))
      of(id) == SelectSeq(known, LAMBDA dp : dp.programId = id)
  IN Map(keys, LAMBDA id :
       [correct |-> SumOver(of(id), LAMBDA dp : dp.correct),
        incorrect |-> SumOver(of(id), LAMBDA dp : dp.incorrect),
        program |-> Find(allPrograms, id).name])

programBreakdown ==
  Sort(Map(programStats, LAMBDA item :
         [correct |-> item.correct,
          incorrect |-> item.incorrect,
          program |-> item.program,
          accuracy |-> RowAccuracy(item.correct, item.incorrect),
          total |-> item.correct + item.incorrect]),
       ByTotalDesc)

(***************************************************************************)
(* targetDrillDown: the Target Drill-Down Reducer.                         *)
(***************************************************************************)
\* drillDownTarget ? ... : ... : null and the empty string are falsy.
Truthy(v) == v # null /\ v # ""

\* Mutant of relevantData: the focused mode narrows the whole log, not the
\* filtered subset.
relevantDataFromLog ==
  IF Truthy(drillDownTarget)
  THEN SelectSeq(dataPoints, LAMBDA d : d.targetId = drillDownTarget)
  ELSE filteredData

relevantData ==
  IF Truthy(drillDownTarget)
  THEN SelectSeq(filteredData, LAMBDA d : d.targetId = drillDownTarget)
  ELSE filteredData

\* Mutant of TargetStatsOf: an event whose target is in no table is grouped
\* under its own id instead of being skipped.
TargetStatsKeepingUnknown(relevant) ==
  LET keys == FirstSeen(Map(relevant, LAMBDA dp : dp.targetId))
      of(id) == SelectSeq(relevant, LAMBDA dp : dp.targetId = id)
  IN Map(keys, LAMBDA id :
       LET target == Find(allTargets, id)
       IN [id |-> id,
           name |-> IF target # undefined THEN target.name ELSE "",
           programId |-> IF target # undefined THEN target.programId ELSE "",
           mastery |-> IF target # undefined THEN target.mastery ELSE 0,
           correct |-> SumOver(of(id), LAMBDA dp : dp.correct),
           incorrect |-> SumOver(of(id), LAMBDA dp : dp.incorrect),
           sessions |-> Len(of(id))])

\* The forEach over the events it is given, and Object.values of its result.
TargetStatsOf(relevant) ==
  LET known == SelectSeq(relevant,
                 LAMBDA dp : Find(allTargets, dp.targetId) # undefined)
      keys == FirstSeen(Map(known, LAMBDA dp : dp.targetId))
      of(id) == SelectSeq(known, LAMBDA dp : dp.targetId = id)
  IN Map(keys, LAMBDA id :
       LET target == Find(allTargets, id)
       IN [id |-> target.id,
           name |-> target.name,
           programId |-> target.programId,
           mastery |-> target.mastery,
           correct |-> SumOver(of(id), LAMBDA dp : dp.correct),
           incorrect |-> SumOver(of(id), LAMBDA dp : dp.incorrect),
           sessions |-> Len(of(id))])

targetStats == TargetStatsOf(relevantData)

\* Mutant of TargetRowsOf: a row whose program is in no table shows the
\* program's id.
TargetRowsNamingId(items) ==
  Sort(Map(items, LAMBDA item :
         LET program == Find(allPrograms, item.programId)
         IN [id |-> item.id,
             name |-> item.name,
             programId |-> item.programId,
             mastery |-> item.mastery,
             correct |-> item.correct,
             incorrect |-> item.incorrect,
             sessions |-> item.sessions,
             accuracy |-> RowAccuracy(item.correct, item.incorrect),
             total |-> item.correct + item.incorrect,
             program |-> IF program # undefined THEN program.name
                         ELSE item.programId]),
       ByTotalDesc)

\* The map and the sort over the values of targetStats.
TargetRowsOf(items) ==
  Sort(Map(items, LAMBDA item :
         LET program == Find(allPrograms, item.programId)
         IN [id |-> item.id,
             name |-> item.name,
             programId |-> item.programId,
             mastery |-> item.mastery,
             correct |-> item.correct,
             incorrect |-> item.incorrect,
             sessions |-> item.sessions,
             accuracy |-> RowAccuracy(item.correct, item.incorrect),
             total |-> item.correct + item.incorrect,
             program |-> IF program # undefined THEN program.name ELSE ""]),
       ByTotalDesc)

targetDrillDown == TargetRowsOf(targetStats)

(***************************************************************************)
(* Facet Option Providers.                                                 *)
(***************************************************************************)
\* The characters of the strings the search boxes compare.
Chars(str) ==
  CASE str = "" -> << >>
    [] str = "re" -> <<"r", "e">>
    [] str = "Emma Johnson" ->
         <<"E", "m", "m", "a", " ", "J", "o", "h", "n", "s", "o", "n">>
    [] str = "Liam Smith" -> <<"L", "i", "a", "m", " ", "S", "m", "i", "t", "h">>
    [] str = "Requesting" -> <<"R", "e", "q", "u", "e", "s", "t", "i", "n", "g">>
    [] str = "Social Greetings" ->
         <<"S", "o", "c", "i", "a", "l", " ",
           "G", "r", "e", "e", "t", "i", "n", "g", "s">>
    [] str = "Request for water" ->
         <<"R", "e", "q", "u", "e", "s", "t", " ", "f", "o", "r", " ",
           "w", "a", "t", "e", "r">>
    [] str = "Wave hello" -> <<"W", "a", "v", "e", " ", "h", "e", "l", "l", "o">>

\* String.prototype.toLowerCase, on the characters.
ToLowerCase(chars) ==
  [i \in 1..Len(chars) |->
     CASE chars[i] = "E" -> "e" [] chars[i] = "G" -> "g" [] chars[i] = "J" -> "j"
       [] chars[i] = "L" -> "l" [] chars[i] = "R" -> "r" [] chars[i] = "S" -> "s"
       [] chars[i] = "W" -> "w" [] OTHER -> chars[i]]

\* String.prototype.includes, on the characters.
StringIncludes(hay, needle) ==
  \E k \in 0..(Len(hay) - Len(needle)) :
    \A i \in 1..Len(needle) : hay[k + i] = needle[i]

\* name.toLowerCase().includes(search.toLowerCase())
Matches(name, search) ==
  StringIncludes(ToLowerCase(Chars(name)), ToLowerCase(Chars(search)))

filteredClients == SelectSeq(clients, LAMBDA c : Matches(c.name, clientSearch))

filteredPrograms == SelectSeq(allPrograms, LAMBDA p : Matches(p.name, programSearch))

filteredTargets ==
  LET programTargets ==
        IF Len(filters.programIds) > 0
        THEN SelectSeq(allTargets, LAMBDA t : Includes(filters.programIds, t.programId))
        ELSE allTargets
  IN SelectSeq(programTargets, LAMBDA t : Matches(t.name, targetSearch))

\* Array.from(new Set(...)): the distinct values in first-seen order.
uniqueCategories == FirstSeen(Map(allPrograms, LAMBDA p : p.category))

uniqueTherapists == FirstSeen(Map(clients, LAMBDA c : c.therapist))

\* filteredTargets.slice(0, 50) of the target dropdown.
MaxShown == 50

(***************************************************************************)
(* The handlers of Dashboard.                                              *)
(***************************************************************************)
\* The initial value of filters and the value Clear All sets, with
\* new Date() = now.
DefaultFilters(now) ==
  [clientIds |-> << >>,
   programIds |-> << >>,
   categories |-> << >>,
   therapists |-> << >>,
   dateRange |-> [start |-> SubMonths(now, WindowMonths), end |-> now],
   targetIds |-> << >>,
   minMastery |-> SliderMin,
   maxMastery |-> SliderMax]

\* Mutant of ToggleFilter: toggling a selected value keeps it and drops the
\* others.
ToggleFilterKeepingValue(prev, key, value) ==
  LET current == prev[key]
      updated == IF Includes(current, value)
                 THEN SelectSeq(current, LAMBDA v : v = value)
                 ELSE Append(current, value)
  IN [prev EXCEPT ![key] = updated]

\* Mutant of ToggleFilter: a value that is not selected replaces the list.
ToggleFilterReplacing(prev, key, value) ==
  LET current == prev[key]
      updated == IF Includes(current, value)
                 THEN SelectSeq(current, LAMBDA v : v # value)
                 ELSE <<value>>
  IN [prev EXCEPT ![key] = updated]

\* toggleFilter(key, value), as the function of prev it passes to setFilters.
ToggleFilter(prev, key, value) ==
  LET current == prev[key]
      updated == IF Includes(current, value)
                 THEN SelectSeq(current, LAMBDA v : v # value)
                 ELSE Append(current, value)
  IN [prev EXCEPT ![key] = updated]

\* The value new Date() takes when the page loads or Clear All is clicked:
\* an instant of September of StartYear, six months after March.
NowChoices == {DateOf(StartYear, 8)}

\* The positions the two range inputs are dragged to.
MinSliderStops == {SliderMin, 60}
MaxSliderStops == {50, SliderMax}

\* The texts typed into the search boxes.
SearchInputs == {"", "re"}

\* The values selected over the five selection lists.
Selected(f) ==
  Len(f.clientIds) + Len(f.programIds) + Len(f.categories)
    + Len(f.therapists) + Len(f.targetIds)

\* A toggle that adds a value is taken while fewer than MaxSelected are set.
MayToggle(key, value) ==
  Includes(filters[key], value) \/ Selected(filters) < MaxSelected

\* Mutant of ClearAll: the button clears the drill-down selection as well.
ClearAllAndSelection ==
  /\ \E now \in NowChoices :
       /\ now >= filters.dateRange.end
       /\ filters' = DefaultFilters(now)
  /\ drillDownTarget' = null
  /\ UNCHANGED <<data, theme, clientSearch, programSearch, targetSearch>>

\* "Clear All"
ClearAll ==
  /\ \E now \in NowChoices :
       /\ now >= filters.dateRange.end
       /\ filters' = DefaultFilters(now)
  /\ UNCHANGED <<data, drillDownTarget, theme,
                 clientSearch, programSearch, targetSearch>>

\* A row of the client dropdown.
ClientOptionClick ==
  /\ \E i \in 1..Len(filteredClients) :
       /\ MayToggle("clientIds", filteredClients[i].id)
       /\ filters' = ToggleFilter(filters, "clientIds", filteredClients[i].id)
  /\ clientSearch' = ""
  /\ UNCHANGED <<data, drillDownTarget, theme, programSearch, targetSearch>>

\* The X of a selected client's chip.
ClientChipClick ==
  /\ \E i \in 1..Len(filters.clientIds) :
       filters' = ToggleFilter(filters, "clientIds", filters.clientIds[i])
  /\ UNCHANGED <<data, drillDownTarget, theme,
                 clientSearch, programSearch, targetSearch>>

\* A category checkbox.
CategoryChange ==
  /\ \E i \in 1..Len(uniqueCategories) :
       /\ MayToggle("categories", uniqueCategories[i])
       /\ filters' = ToggleFilter(filters, "categories", uniqueCategories[i])
  /\ UNCHANGED <<data, drillDownTarget, theme,
                 clientSearch, programSearch, targetSearch>>

\* A row of the program dropdown.
ProgramOptionClick ==
  /\ \E i \in 1..Len(filteredPrograms) :
       /\ MayToggle("programIds", filteredPrograms[i].id)
       /\ filters' = ToggleFilter(filters, "programIds", filteredPrograms[i].id)
  /\ programSearch' = ""
  /\ UNCHANGED <<data, drillDownTarget, theme, clientSearch, targetSearch>>

\* The X of a selected program's chip.
ProgramChipClick ==
  /\ \E i \in 1..Len(filters.programIds) :
       filters' = ToggleFilter(filters, "programIds", filters.programIds[i])
  /\ UNCHANGED <<data, drillDownTarget, theme,
                 clientSearch, programSearch, targetSearch>>

\* A row of the target dropdown.
TargetOptionClick ==
  /\ LET shown == Slice0(filteredTargets, MaxShown)
     IN \E i \in 1..Len(shown) :
          /\ MayToggle("targetIds", shown[i].id)
          /\ filters' = ToggleFilter(filters, "targetIds", shown[i].id)
  /\ targetSearch' = ""
  /\ UNCHANGED <<data, drillDownTarget, theme, clientSearch, programSearch>>

\* The X of a selected target's chip.
TargetChipClick ==
  /\ \E i \in 1..Len(filters.targetIds) :
       filters' = ToggleFilter(filters, "targetIds", filters.targetIds[i])
  /\ UNCHANGED <<data, drillDownTarget, theme,
                 clientSearch, programSearch, targetSearch>>

\* A therapist checkbox.
TherapistChange ==
  /\ \E i \in 1..Len(uniqueTherapists) :
       /\ MayToggle("therapists", uniqueTherapists[i])
       /\ filters' = ToggleFilter(filters, "therapists", uniqueTherapists[i])
  /\ UNCHANGED <<data, drillDownTarget, theme,
                 clientSearch, programSearch, targetSearch>>

\* The first range input: minMastery: parseInt(e.target.value).
MinMasteryChange ==
  /\ \E v \in MinSliderStops : filters' = [filters EXCEPT !.minMastery = v]
  /\ UNCHANGED <<data, drillDownTarget, theme,
                 clientSearch, programSearch, targetSearch>>

\* The second range input: maxMastery: parseInt(e.target.value).
MaxMasteryChange ==
  /\ \E v \in MaxSliderStops : filters' = [filters EXCEPT !.maxMastery = v]
  /\ UNCHANGED <<data, drillDownTarget, theme,
                 clientSearch, programSearch, targetSearch>>

\* The theme button.
ThemeToggle ==
  /\ theme' = IF theme = "light" THEN "dark" ELSE "light"
  /\ UNCHANGED <<data, filters, drillDownTarget,
                 clientSearch, programSearch, targetSearch>>

\* handleCardClick(type): the four summary cards.
handleCardClick(type) ==
  /\ drillDownTarget' = null
  /\ IF type = "targets"
     THEN LET masteredTargetIds ==
                Map(SelectSeq(allTargets, LAMBDA t : t.mastery >= MasteredAt),
                    LAMBDA t : t.id)
          IN filters' = [filters EXCEPT !.targetIds = masteredTargetIds]
     ELSE UNCHANGED filters
  /\ UNCHANGED <<data, theme, clientSearch, programSearch, targetSearch>>

\* "Clear Selection", rendered while drillDownTarget is truthy.
ClearSelection ==
  /\ Truthy(drillDownTarget)
  /\ drillDownTarget' = null
  /\ UNCHANGED <<data, filters, theme, clientSearch, programSearch, targetSearch>>

\* Mutant of RowClick: the click selects the row by its name.
RowClickByName ==
  /\ \E i \in 1..Len(targetDrillDown) : drillDownTarget' = targetDrillDown[i].name
  /\ UNCHANGED <<data, filters, theme, clientSearch, programSearch, targetSearch>>

\* A row of the drill-down table.
RowClick ==
  /\ \E i \in 1..Len(targetDrillDown) : drillDownTarget' = targetDrillDown[i].id
  /\ UNCHANGED <<data, filters, theme, clientSearch, programSearch, targetSearch>>

\* The search boxes holding text once `box` holds `text`.
Typed(box, text) ==
  Cardinality({b \in {"client", "program", "target"} :
                 IF b = box THEN text # ""
                 ELSE CASE b = "client" -> clientSearch # ""
                        [] b = "program" -> programSearch # ""
                        [] b = "target" -> targetSearch # ""})

\* The three search boxes.
ClientSearchChange ==
  /\ \E text \in SearchInputs :
       /\ Typed("client", text) <= MaxTyped
       /\ clientSearch' = text
  /\ UNCHANGED <<data, filters, drillDownTarget, theme, programSearch, targetSearch>>

ProgramSearchChange ==
  /\ \E text \in SearchInputs :
       /\ Typed("program", text) <= MaxTyped
       /\ programSearch' = text
  /\ UNCHANGED <<data, filters, drillDownTarget, theme, clientSearch, targetSearch>>

TargetSearchChange ==
  /\ \E text \in SearchInputs :
       /\ Typed("target", text) <= MaxTyped
       /\ targetSearch' = text
  /\ UNCHANGED <<data, filters, drillDownTarget, theme, clientSearch, programSearch>>

(***************************************************************************)
(* The generated data (mockData.ts).  The model keeps two clients, two of  *)
(* the twelve programs (rows p1 and p3, of different categories) and one   *)
(* target per program, and of each record the fields page.tsx reads.       *)
(***************************************************************************)
\* The therapists Math.random() assigns to the two clients here.
TherapistDraws == {<<"Dr. Sarah Mitchell", "Dr. John Peterson">>}

\* The values Math.random() * 100 gives a target's mastery here.
MasteryDraws == {40, 90}

generateClients(therapist) ==
  <<[id |-> "c1", name |-> "Emma Johnson", therapist |-> therapist[1]],
    [id |-> "c2", name |-> "Liam Smith", therapist |-> therapist[2]]>>

generatePrograms ==
  <<[id |-> "p1", name |-> "Requesting", category |-> "Communication"],
    [id |-> "p3", name |-> "Social Greetings", category |-> "Social Skills"]>>

generateTargets(mastery) ==
  <<[id |-> "p1-t1", programId |-> "p1", name |-> "Request for water",
     mastery |-> mastery[1]],
    [id |-> "p3-t1", programId |-> "p3", name |-> "Wave hello",
     mastery |-> mastery[2]]>>

DataPoint(date, clientId, programId, targetId, correct, incorrect) ==
  [date |-> date, clientId |-> clientId, programId |-> programId,
   targetId |-> targetId, correct |-> correct, incorrect |-> incorrect]

\* The instant of day `day` (from 0) of month `monthIndex` of StartYear.
Day(monthIndex, day) == DateOf(StartYear, monthIndex) + day

\* A log generateDataPoints returns: every id resolves, a target's events
\* carry its program, dates lie in [startDate, endDate), every session has
\* at least five trials, and the log is sorted by date.
GeneratedLogs ==
  {<<DataPoint(Day(1, 0), "c1", "p1", "p1-t1", 5, 0),
     DataPoint(Day(3, 1), "c1", "p1", "p1-t1", 3, 2),
     DataPoint(Day(7, 0), "c2", "p3", "p3-t1", 8, 2),
     DataPoint(Day(7, 1), "c1", "p3", "p3-t1", 3, 2)>>}

\* Every log of at most MaxEvents events drawn from `events`.
Logs(events) == UNION {[1..n -> events] : n \in 0..MaxEvents}

InitDashboard(now) ==
  /\ filters = DefaultFilters(now)
  /\ drillDownTarget = null
  /\ theme = "light"
  /\ clientSearch = ""
  /\ programSearch = ""
  /\ targetSearch = ""

(***************************************************************************)
(* Spec: the dashboard as the user drives it.                              *)
(***************************************************************************)
Init ==
  /\ \E therapist \in TherapistDraws : clients = generateClients(therapist)
  /\ allPrograms = generatePrograms
  /\ \E mastery \in [1..2 -> MasteryDraws] : allTargets = generateTargets(mastery)
  /\ dataPoints \in GeneratedLogs
  /\ \E now \in NowChoices : InitDashboard(now)

CardTypes == {"clients", "accuracy", "programs", "targets"}

Next ==
  \/ ClearAll
  \/ ClientOptionClick
  \/ ClientChipClick
  \/ CategoryChange
  \/ ProgramOptionClick
  \/ ProgramChipClick
  \/ TargetOptionClick
  \/ TargetChipClick
  \/ TherapistChange
  \/ MinMasteryChange
  \/ MaxMasteryChange
  \/ ThemeToggle
  \/ \E type \in CardTypes : handleCardClick(type)
  \/ ClearSelection
  \/ RowClick
  \/ ClientSearchChange
  \/ ProgramSearchChange
  \/ TargetSearchChange

Spec == Init /\ [][Next]_vars

(***************************************************************************)
(* SpecFilter: the filter predicate as a pure function of the event log,   *)
(* the reference tables and the Filter Specification.  The log holds any   *)
(* events, ids that resolve in no table included; setFilters is called     *)
(* with any value of each facet.                                           *)
(***************************************************************************)
\* setFilters(next)
setFilters(next) ==
  /\ filters' = next
  /\ UNCHANGED <<data, drillDownTarget, theme,
                 clientSearch, programSearch, targetSearch>>

\* The instant of the events of SpecFilter, and the date ranges around it.
FilterDate == Day(5, 0)

FilterRanges ==
  {[start |-> FilterDate - 1, end |-> FilterDate - 1],
   [start |-> FilterDate, end |-> FilterDate],
   [start |-> FilterDate + 1, end |-> FilterDate + 1]}

\* Ids per table: the first is the one a selection list names, the second
\* another row of the table, the third resolves in no table.
FilterIds ==
  [client |-> <<"c1", "c2", "c0">>,
   program |-> <<"p1", "p3", "p0">>,
   target |-> <<"p1-t1", "p3-t1", "t0">>]

\* The events of SpecFilter: the one whose ids are all selectable, those
\* that differ from it in one id, and the one no id of which resolves.
FilterEvents ==
  {DataPoint(FilterDate, FilterIds.client[k[1]], FilterIds.program[k[2]],
             FilterIds.target[k[3]], 5, 0) :
     k \in {<<1, 1, 1>>, <<2, 1, 1>>, <<3, 1, 1>>, <<1, 2, 1>>, <<1, 3, 1>>,
            <<1, 1, 2>>, <<1, 1, 3>>, <<3, 3, 3>>}}

\* The value toggled in each selection list.
FilterToggles ==
  {<<"clientIds", "c1">>, <<"programIds", "p1">>, <<"targetIds", "p1-t1">>,
   <<"categories", "Communication">>, <<"therapists", "Dr. Sarah Mitchell">>}

InitFilter ==
  /\ clients = generateClients(<<"Dr. Sarah Mitchell", "Dr. John Peterson">>)
  /\ allPrograms = generatePrograms
  /\ allTargets = generateTargets(<<40, 90>>)
  /\ dataPoints \in Logs(FilterEvents)
  /\ InitDashboard(FilterDate)

NextFilter ==
  \/ \E t \in FilterToggles : setFilters(ToggleFilter(filters, t[1], t[2]))
  \/ \E r \in FilterRanges : setFilters([filters EXCEPT !.dateRange = r])
  \/ MinMasteryChange
  \/ MaxMasteryChange

SpecFilter == InitFilter /\ [][NextFilter]_vars

(***************************************************************************)
(* SpecAgg: the aggregators as pure functions of the filtered subset.  The *)
(* log holds any events (no trials at all, any order of dates, months of   *)
(* two years, ids that resolve in no table); the first range input narrows *)
(* the subset and setDrillDownTarget is called with any value.             *)
(***************************************************************************)
\* setDrillDownTarget(value)
setDrillDownTarget(value) ==
  /\ drillDownTarget' = value
  /\ UNCHANGED <<data, filters, theme, clientSearch, programSearch, targetSearch>>

\* December of StartYear (two instants) and January of the next year.
AggDates == {Day(11, 0), Day(11, 1), Day(12, 0)}

\* (correct, incorrect) of an event.
TrialPairs == {<<0, 0>>, <<5, 0>>, <<3, 2>>, <<8, 2>>}

\* The Target table of SpecAgg: the two generated rows and a row whose
\* program is in no table, with a mastery of exactly MasteredAt.
AggTargets ==
  generateTargets(<<40, 90>>)
    \o <<[id |-> "p9-t1", programId |-> "p9", name |-> "Target 1",
          mastery |-> MasteredAt]>>

\* (programId, targetId) of an event: the two generated targets, a target
\* whose program is in no table, and ids that are in no table.
AggIds == {<<"p1", "p1-t1">>, <<"p3", "p3-t1">>, <<"p9", "p9-t1">>, <<"p0", "t0">>}

AggEvents ==
  {DataPoint(date, "c1", ids[1], ids[2], trials[1], trials[2]) :
     date \in AggDates, ids \in AggIds, trials \in TrialPairs}

\* The values setDrillDownTarget is called with: null, a target of the
\* table, an id events carry that is in no table, an id nothing carries.
FocusChoices == {null, "p1-t1", "t0", "t9"}

InitAgg ==
  /\ clients = generateClients(<<"Dr. Sarah Mitchell", "Dr. John Peterson">>)
  /\ allPrograms = generatePrograms
  /\ allTargets = AggTargets
  /\ dataPoints \in Logs(AggEvents)
  /\ InitDashboard(Day(12, 0))

NextAgg ==
  \/ \E value \in FocusChoices : setDrillDownTarget(value)
  \/ MinMasteryChange

SpecAgg == InitAgg /\ [][NextAgg]_vars

(***************************************************************************)
(* The claims.  What a claim says of the filter is stated over sets, apart *)
(* from the operators above.                                               *)
(***************************************************************************)
\* The rows of a reference table an id resolves to.
Resolved(table, id) == {table[i] : i \in {j \in 1..Len(table) : table[j].id = id}}

\* The facet predicates of the Filter Predicate Evaluator, as the
\* specification words them.
ClientFacet(f, e) == f.clientIds = << >> \/ e.clientId \in SetOf(f.clientIds)
ProgramFacet(f, e) == f.programIds = << >> \/ e.programId \in SetOf(f.programIds)
TargetFacet(f, e) == f.targetIds = << >> \/ e.targetId \in SetOf(f.targetIds)
MasteryFacet(f, e) ==
  \/ Resolved(allTargets, e.targetId) = {}
  \/ \E t \in Resolved(allTargets, e.targetId) :
       f.minMastery <= t.mastery /\ t.mastery <= f.maxMastery
CategoryFacet(f, e) ==
  \/ f.categories = << >>
  \/ Resolved(allPrograms, e.programId) = {}
  \/ \E p \in Resolved(allPrograms, e.programId) : p.category \in SetOf(f.categories)
TherapistFacet(f, e) ==
  \/ f.therapists = << >>
  \/ Resolved(clients, e.clientId) = {}
  \/ \E c \in Resolved(clients, e.clientId) : c.therapist \in SetOf(f.therapists)
DateFacet(f, e) == f.dateRange.start <= e.date /\ e.date <= f.dateRange.end

\* The event is one of the filtered subset.
InSubset(e) == \E j \in 1..Len(filteredData) : filteredData[j] = e

\* C1: an event of the log is in the filtered subset if and only if all
\* seven facet predicates hold of it together.
C1_SevenFacets ==
  \A i \in 1..Len(dataPoints) :
    LET e == dataPoints[i]
    IN InSubset(e) <=>
         /\ ClientFacet(filters, e)
         /\ ProgramFacet(filters, e)
         /\ TargetFacet(filters, e)
         /\ MasteryFacet(filters, e)
         /\ CategoryFacet(filters, e)
         /\ TherapistFacet(filters, e)
         /\ DateFacet(filters, e)

\* C1's case: all five selection lists are set, the date range ends on the
\* events' date, and of two events one passes and one does not.
C1_Witness ==
  /\ Selected(filters) = 5
  /\ filters.dateRange.end = FilterDate
  /\ Len(dataPoints) = 2
  /\ Len(filteredData) = 1

\* C2: with the five selection lists empty, the mastery range [0, 100] and
\* a date range that covers every event's date, the filtered subset is the
\* whole event log.
C2_Identity ==
  ( /\ Selected(filters) = 0
    /\ filters.minMastery = SliderMin
    /\ filters.maxMastery = SliderMax
    /\ \A i \in 1..Len(dataPoints) :
         /\ filters.dateRange.start <= dataPoints[i].date
         /\ dataPoints[i].date <= filters.dateRange.end )
  => filteredData = dataPoints

\* C2's case: the selection lists are empty, the mastery range is full and
\* the date range has been set to the events' instant alone; the log holds
\* two events, one of them with ids no table resolves.
C2_Witness ==
  /\ Selected(filters) = 0
  /\ filters.minMastery = SliderMin
  /\ filters.maxMastery = SliderMax
  /\ filters.dateRange = [start |-> FilterDate, end |-> FilterDate]
  /\ Len(dataPoints) = 2
  /\ dataPoints[1].clientId = "c0"
  /\ dataPoints[2].clientId = "c1"
  /\ filteredData = dataPoints

\* sub is full with some of its elements left out.
RECURSIVE IsSubsequence(_, _)
IsSubsequence(sub, full) ==
  IF sub = << >> THEN TRUE
  ELSE IF full = << >> THEN FALSE
  ELSE IF Head(sub) = Head(full) THEN IsSubsequence(Tail(sub), Tail(full))
  ELSE IsSubsequence(sub, Tail(full))

\* C3: in every state the UI reaches the filtered subset is the event log
\* with some events left out (none made up, none repeated, the order kept),
\* and no step changes the event log.
C3_SubsetInOrder ==
  /\ [](IsSubsequence(filteredData, dataPoints))
  /\ [][dataPoints' = dataPoints]_vars

\* C3's case: the filter keeps the second and the fourth event of the log
\* and drops the one between them.
C3_Witness ==
  /\ Len(dataPoints) = 4
  /\ filters.clientIds = <<"c1">>
  /\ filteredData = <<dataPoints[2], dataPoints[4]>>

\* C4: an event whose target id does not resolve is in the filtered subset
\* exactly when the six facets other than mastery hold of it; likewise
\* without the category facet when its program id does not resolve, and
\* without the therapist facet when its client id does not.
C4_FailOpenPerFacet ==
  \A i \in 1..Len(dataPoints) :
    LET e == dataPoints[i]
        others(skipMastery, skipCategory, skipTherapist) ==
          /\ ClientFacet(filters, e)
          /\ ProgramFacet(filters, e)
          /\ TargetFacet(filters, e)
          /\ DateFacet(filters, e)
          /\ skipMastery \/ MasteryFacet(filters, e)
          /\ skipCategory \/ CategoryFacet(filters, e)
          /\ skipTherapist \/ TherapistFacet(filters, e)
        noTarget == \A j \in 1..Len(allTargets) : allTargets[j].id # e.targetId
        noProgram == \A j \in 1..Len(allPrograms) : allPrograms[j].id # e.programId
        noClient == \A j \in 1..Len(clients) : clients[j].id # e.clientId
    IN /\ noTarget => (InSubset(e) <=> others(TRUE, FALSE, FALSE))
       /\ noProgram => (InSubset(e) <=> others(FALSE, TRUE, FALSE))
       /\ noClient => (InSubset(e) <=> others(FALSE, FALSE, TRUE))
       /\ (noTarget /\ noProgram /\ noClient) =>
            (InSubset(e) <=> others(TRUE, TRUE, TRUE))

\* C4's case: a category and a therapist are selected and the mastery range
\* admits no target, the log holds the event none of whose ids resolves and
\* the event whose ids all resolve: the first is kept, the second dropped.
C4_Witness ==
  /\ filters.categories # << >>
  /\ filters.therapists # << >>
  /\ filters.minMastery > filters.maxMastery
  /\ Len(dataPoints) = 2
  /\ dataPoints[1].targetId = "t0" /\ dataPoints[1].programId = "p0"
  /\ dataPoints[1].clientId = "c0"
  /\ dataPoints[2].targetId = "p1-t1" /\ dataPoints[2].programId = "p1"
  /\ dataPoints[2].clientId = "c1"
  /\ filteredData = <<dataPoints[1]>>

\* C5: whenever minMastery > maxMastery, no event whose target resolves is
\* in the filtered subset, and the pipeline gives its empty result: no
\* trials, accuracy 0, no monthly point, no breakdown row, no drill-down row.
C5_InvertedMasteryRange ==
  filters.minMastery > filters.maxMastery =>
    /\ \A i \in 1..Len(filteredData) :
         Resolved(allTargets, filteredData[i].targetId) = {}
    /\ totalTrials = 0
    /\ stats.avgAccuracy = [num |-> 0, den |-> 1]
    /\ stats.activePrograms = 0
    /\ stats.masteredTargets = 0
    /\ cumulativeGraphData = << >>
    /\ programBreakdown = << >>
    /\ targetDrillDown = << >>

\* C5's case: the two range inputs have been moved to 60 and 50, in a state
\* whose date range and selection lists would let events through.
C5_Witness ==
  /\ filters.minMastery = 60
  /\ filters.maxMastery = 50
  /\ Selected(filters) = 0
  /\ FilterBy([filters EXCEPT !.minMastery = SliderMin,
                              !.maxMastery = SliderMax]) # << >>
  /\ filteredData = << >>

\* The client ids occurring in the filtered subset.
ClientsInSubset == {filteredData[i].clientId : i \in 1..Len(filteredData)}

\* C6: activeClients is the number of selected clients when any is selected,
\* and otherwise the number of distinct client ids in the filtered subset.
C6_ActiveClients ==
  /\ filters.clientIds # << >> => stats.activeClients = Len(filters.clientIds)
  /\ filters.clientIds = << >> => stats.activeClients = Cardinality(ClientsInSubset)

\* C6's case: clients c1 and c2 are selected, only c1 has an event in the
\* filtered subset, and activeClients is 2.
C6_Witness ==
  /\ SetOf(filters.clientIds) = {"c1", "c2"}
  /\ ClientsInSubset = {"c1"}
  /\ stats.activeClients = 2

\* The sum of f over a set of indices.
RECURSIVE SumAt(_, _)
SumAt(f, indices) ==
  IF indices = {} THEN 0
  ELSE LET i == CHOOSE j \in indices : TRUE
       IN f[i] + SumAt(f, indices \ {i})

\* C7: totalTrials is the sum of correct + incorrect and correctTrials the
\* sum of correct over the filtered subset; avgAccuracy is
\* correctTrials / totalTrials * 100 when totalTrials > 0 and 0 otherwise.
C7_SummaryTotals ==
  LET subset == filteredData
      n == Len(subset)
      correct == [i \in 1..n |-> subset[i].correct]
      incorrect == [i \in 1..n |-> subset[i].incorrect]
  IN /\ correctTrials = SumAt(correct, 1..n)
     /\ totalTrials = SumAt(correct, 1..n) + SumAt(incorrect, 1..n)
     /\ stats.avgAccuracy.den > 0
     /\ totalTrials > 0 =>
          stats.avgAccuracy.num * totalTrials
            = 100 * correctTrials * stats.avgAccuracy.den
     /\ totalTrials = 0 => stats.avgAccuracy.num = 0

\* C7's case: the lower range input has been moved, and of the two events of
\* the log the filtered subset keeps the one with 8 correct and 2 incorrect
\* trials: 10 trials, 8 correct, accuracy 80.
C7_Witness ==
  /\ filters.minMastery = 60
  /\ Len(dataPoints) = 2
  /\ Len(filteredData) = 1
  /\ filteredData[1].correct = 8
  /\ filteredData[1].incorrect = 2
  /\ totalTrials = 10
  /\ correctTrials = 8
  /\ stats.avgAccuracy = [num |-> 80, den |-> 1]

\* C8: over consecutive points of the monthly series neither the cumulative
\* correct count nor the cumulative trial count decreases.
C8_CumulativeMonotone ==
  LET series == cumulativeGraphData
  IN \A i \in 1..(Len(series) - 1) :
       /\ series[i].cumulative <= series[i + 1].cumulative
       /\ series[i].trials <= series[i + 1].trials

\* C8's case: two months, the later one with fewer correct trials of its own
\* than the earlier one, and a series that still rises.
C8_Witness ==
  /\ Len(dataPoints) = 2
  /\ dataPoints[1].date < dataPoints[2].date
  /\ dataPoints[1].correct > dataPoints[2].correct
  /\ dataPoints[2].correct > 0
  /\ LET series == cumulativeGraphData
     IN /\ Len(series) = 2
        /\ series[1].cumulative < series[2].cumulative

\* C9: the monthly series has one point per month-year of the filtered
\* subset, the i-th point is that of the i-th earliest such month, labelled
\* with it, and carries the sums of correct and of correct + incorrect over
\* the filtered events of that month and of all earlier months.
C9_MonthlySeries ==
  LET subset == filteredData
      series == cumulativeGraphData
      n == Len(subset)
      months == {subset[i].date \div DaysPerMonth : i \in 1..n}
      correct == [i \in 1..n |-> subset[i].correct]
      trials == [i \in 1..n |-> subset[i].correct + subset[i].incorrect]
      upTo(m) == {i \in 1..n : subset[i].date \div DaysPerMonth <= m}
  IN /\ Len(series) = Cardinality(months)
     /\ \A k \in 1..Len(series) :
          \E m \in months :
            /\ Cardinality({x \in months : x <= m}) = k
            /\ series[k].month
                 = MonthNames[(m % 12) + 1] \o " " \o ToString(StartYear + m \div 12)
            /\ series[k].cumulative = SumAt(correct, upTo(m))
            /\ series[k].trials = SumAt(trials, upTo(m))

\* C9's case: an event of January with (3, 2) met before an event of the
\* December before it with (5, 0): the series is December with 5 and
\* "100.0", then January with 8 and "80.0".
C9_Witness ==
  /\ Len(dataPoints) = 2
  /\ dataPoints[1].date = Day(12, 0)
  /\ dataPoints[2].date = Day(11, 1)
  /\ cumulativeGraphData =
       <<[month |-> "Dec 2024", cumulative |-> 5,
          accuracy |-> [s |-> "100.0"], trials |-> 5],
         [month |-> "Jan 2025", cumulative |-> 8,
          accuracy |-> [s |-> "80.0"], trials |-> 10]>>

\* The accuracy values the four reducers report.
ReportedAccuracies ==
  {stats.avgAccuracy}
    \cup {cumulativeGraphData[i].accuracy : i \in 1..Len(cumulativeGraphData)}
    \cup {programBreakdown[i].accuracy : i \in 1..Len(programBreakdown)}
    \cup {targetDrillDown[i].accuracy : i \in 1..Len(targetDrillDown)}

\* C10: no reducer reports an undefined accuracy: the accuracy of a month
\* prefix, of a program and of a target without trials is a defined value,
\* never the NaN of a division of 0 by 0.
C10_AccuracyGuarded == [s |-> "NaN"] \notin ReportedAccuracies

\* The indices of the filtered events that carry program `id`.
EventsOfProgram(id) ==
  {i \in 1..Len(filteredData) : filteredData[i].programId = id}

\* The least index of a non-empty set of indices.
First(indices) == CHOOSE i \in indices : \A j \in indices : i <= j

\* C11: the breakdown has one row per program id of the filtered subset that
\* is in the Program table, and none for other ids; a row carries the
\* program's name and its sums of correct and incorrect; the rows are in
\* descending order of total, rows of equal total in the order their
\* programs were first met.
C11_ProgramBreakdown ==
  LET subset == filteredData
      rows == programBreakdown
      n == Len(subset)
      correct == [i \in 1..n |-> subset[i].correct]
      incorrect == [i \in 1..n |-> subset[i].incorrect]
      ids == {id \in {subset[i].programId : i \in 1..n} :
                Resolved(allPrograms, id) # {}}
      idOf(row) ==
        CHOOSE id \in ids : \E p \in Resolved(allPrograms, id) : p.name = row.program
  IN /\ Len(rows) = Cardinality(ids)
     /\ \A id \in ids :
          \E k \in 1..Len(rows) :
            /\ \E p \in Resolved(allPrograms, id) : rows[k].program = p.name
            /\ rows[k].correct = SumAt(correct, EventsOfProgram(id))
            /\ rows[k].incorrect = SumAt(incorrect, EventsOfProgram(id))
            /\ rows[k].total = rows[k].correct + rows[k].incorrect
     /\ \A k \in 1..(Len(rows) - 1) :
          \/ rows[k].total > rows[k + 1].total
          \/ /\ rows[k].total = rows[k + 1].total
             /\ First(EventsOfProgram(idOf(rows[k])))
                  < First(EventsOfProgram(idOf(rows[k + 1])))

\* C11's case: a program with 5 trials met before a program with 10 trials:
\* the breakdown lists the program with 10 first.
C11_Witness ==
  /\ Len(dataPoints) = 2
  /\ dataPoints[1].programId = "p1"
  /\ dataPoints[1].correct + dataPoints[1].incorrect = 5
  /\ dataPoints[2].programId = "p3"
  /\ dataPoints[2].correct + dataPoints[2].incorrect = 10
  /\ LET rows == programBreakdown
     IN /\ Len(rows) = 2
        /\ rows[1].program = "Social Greetings" /\ rows[1].total = 10
        /\ rows[2].program = "Requesting" /\ rows[2].total = 5

\* The indices of the filtered events that carry target `id`.
EventsOfTarget(id) ==
  {i \in 1..Len(filteredData) : filteredData[i].targetId = id}

\* C12: while the drill-down is focused on an id that is in no row of the
\* Target table, or that no filtered event carries, the drill-down result is
\* the empty list (and its evaluation does not fail).
C12_UnknownFocus ==
  (/\ Truthy(drillDownTarget)
   /\ \/ Resolved(allTargets, drillDownTarget) = {}
      \/ EventsOfTarget(drillDownTarget) = {})
    => targetDrillDown = << >>

\* C12's case: setDrillDownTarget was called with an id that filtered events
\* carry and the Target table does not hold.
C12_Witness ==
  /\ drillDownTarget = "t0"
  /\ Resolved(allTargets, "t0") = {}
  /\ EventsOfTarget("t0") # {}
  /\ targetDrillDown = << >>

\* The ids of the targets the "Mastered Targets" card selects.
MasteredIds ==
  SelectSeq([i \in 1..Len(allTargets) |-> allTargets[i].id],
            LAMBDA id : \E t \in Resolved(allTargets, id) : t.mastery >= MasteredAt)

\* The ids of the rows the drill-down table displays.
DisplayedIds == {targetDrillDown[i].id : i \in 1..Len(targetDrillDown)}

\* C13: the selection starts Unselected (null); a step that changes it
\* either sets it to the id of a displayed row and changes nothing else (a
\* row click), or sets it to null and leaves the filters alone ("Clear
\* Selection", a summary card) or with targetIds replaced by the mastered
\* ids (the "Mastered Targets" card); so no step that toggles a facet, edits
\* a range, clears the filters, types in a search box or switches the theme
\* changes it.
C13_DrillDownMachine ==
  /\ drillDownTarget = null
  /\ [][drillDownTarget' # drillDownTarget =>
          /\ UNCHANGED <<data, theme, clientSearch, programSearch, targetSearch>>
          /\ \/ /\ drillDownTarget' \in DisplayedIds
                /\ filters' = filters
             \/ /\ drillDownTarget' = null
                /\ \/ filters' = filters
                   \/ filters' = [filters EXCEPT !.targetIds = MasteredIds]]_vars

\* C13's case: a row was selected and a later filter change removed every
\* event of its target from the filtered subset; the selection is kept.
C13_Witness ==
  /\ Truthy(drillDownTarget)
  /\ EventsOfTarget(drillDownTarget) = {}
  /\ filters # DefaultFilters(filters.dateRange.end)

\* The five selection sets and the two bounds of a Filter Specification.
SelectionKeys == {"clientIds", "programIds", "categories", "therapists", "targetIds"}
RangeKeys == {"minMastery", "maxMastery"}

\* `new` is `old` but for field `key`.
DiffersAt(old, new, key) ==
  \A k \in DOMAIN old : k # key => new[k] = old[k]

\* `new` is the list `old` with one value added at its end or one value
\* taken out.
OneValueFlipped(old, new) ==
  \/ \E v \in SetOf(new) \ SetOf(old) : new = Append(old, v)
  \/ \E v \in SetOf(old) : new = SelectSeq(old, LAMBDA x : x # v)

\* A facet toggle: one value enters or leaves one selection set.
IsFacetToggle(old, new) ==
  \E key \in SelectionKeys :
    DiffersAt(old, new, key) /\ OneValueFlipped(old[key], new[key])

\* A range edit: one bound takes a new value.
IsRangeEdit(old, new) == \E key \in RangeKeys : DiffersAt(old, new, key)

\* The default: empty selection sets, the whole mastery range, and a date
\* window of WindowMonths months.
IsDefault(f) ==
  /\ \A key \in SelectionKeys : f[key] = << >>
  /\ f.minMastery = SliderMin /\ f.maxMastery = SliderMax
  /\ f.dateRange.start = SubMonths(f.dateRange.end, WindowMonths)

\* C14 as claimed: the Filter Specification starts at the default and every
\* step that changes it is a facet toggle or a range edit of one bound.
C14_OnlyTogglesAndEdits ==
  /\ IsDefault(filters)
  /\ [][filters' # filters =>
          IsFacetToggle(filters, filters') \/ IsRangeEdit(filters, filters')]_vars

\* C14, amended: the Filter Specification starts at the default and every
\* step that changes it is a facet toggle, a range edit of one bound, a
\* reset to the default ("Clear All") or the replacement of targetIds by the
\* ids of the mastered targets (the "Mastered Targets" card).
C14_FilterMutations ==
  /\ IsDefault(filters)
  /\ [][filters' # filters =>
          \/ IsFacetToggle(filters, filters')
          \/ IsRangeEdit(filters, filters')
          \/ IsDefault(filters')
          \/ filters' = [filters EXCEPT !.targetIds = MasteredIds]]_vars

\* C14's case: a toggle has selected a client, a range edit has moved the
\* lower bound, and targetIds holds the two mastered targets.
C14_Witness ==
  /\ Len(filters.clientIds) = 1
  /\ filters.minMastery = 60
  /\ Len(MasteredIds) = 2
  /\ filters.targetIds = MasteredIds

\* C15: masteredTargets is the number of rows of the Target table with a
\* mastery of at least 80 whose id some filtered event carries: a target
\* counts once whatever the number of its events, and an id of no row
\* counts for nothing.
C15_MasteredTargets ==
  stats.masteredTargets =
    Cardinality({i \in 1..Len(allTargets) :
                   /\ allTargets[i].mastery >= 80
                   /\ EventsOfTarget(allTargets[i].id) # {}})

\* C15's case: two filtered events carry the same target, whose mastery is
\* exactly 80; masteredTargets is 1.
C15_Witness ==
  /\ Len(filteredData) = 2
  /\ filteredData[1].targetId = filteredData[2].targetId
  /\ \E t \in Resolved(allTargets, filteredData[1].targetId) : t.mastery = 80
  /\ stats.masteredTargets = 1

\* The name a drill-down row shows for program `id`: that of its row in the
\* Program table, the empty string without one.
ProgramNameOf(id) ==
  IF Resolved(allPrograms, id) = {} THEN ""
  ELSE (CHOOSE p \in Resolved(allPrograms, id) : TRUE).name

\* C16: without a selection the drill-down has one row per target id of the
\* filtered subset that is in the Target table; the row carries the sums of
\* correct and incorrect over the target's filtered events, the number of
\* those events as sessions, the table's name and mastery, and the program
\* name or the empty string; totals do not increase down the rows.
C16_UnfocusedDrillDown ==
  ~Truthy(drillDownTarget) =>
    LET subset == filteredData
        rows == targetDrillDown
        n == Len(subset)
        correct == [i \in 1..n |-> subset[i].correct]
        incorrect == [i \in 1..n |-> subset[i].incorrect]
        ids == {id \in {subset[i].targetId : i \in 1..n} :
                  Resolved(allTargets, id) # {}}
    IN /\ Len(rows) = Cardinality(ids)
       /\ \A id \in ids :
            \E k \in 1..Len(rows) :
              \E t \in Resolved(allTargets, id) :
                /\ rows[k].id = id
                /\ rows[k].name = t.name
                /\ rows[k].mastery = t.mastery
                /\ rows[k].program = ProgramNameOf(t.programId)
                /\ rows[k].correct = SumAt(correct, EventsOfTarget(id))
                /\ rows[k].incorrect = SumAt(incorrect, EventsOfTarget(id))
                /\ rows[k].sessions = Cardinality(EventsOfTarget(id))
                /\ rows[k].total = rows[k].correct + rows[k].incorrect
       /\ \A k \in 1..(Len(rows) - 1) : rows[k].total >= rows[k + 1].total

\* C16's case: no selection, and two filtered events of one target whose
\* program is in no table: one row, two sessions, no program name.
C16_Witness ==
  /\ drillDownTarget = null
  /\ Len(filteredData) = 2
  /\ filteredData[1].targetId = "p9-t1"
  /\ filteredData[2].targetId = "p9-t1"
  /\ filteredData[1].correct + filteredData[1].incorrect > 0
  /\ LET rows == targetDrillDown
     IN /\ Len(rows) = 1
        /\ rows[1].sessions = 2
        /\ rows[1].program = ""
        /\ rows[1].mastery = 80

\* The drill-down result the same filters give without a selection.
UnfocusedDrillDown == TargetRowsOf(TargetStatsOf(filteredData))

\* C17: while a target is selected the drill-down has at most one row, a row
\* it has is that of the selected id, and the result is exactly the rows of
\* the selected id in the result the same filters give without a selection.
C17_FocusedRow ==
  Truthy(drillDownTarget) =>
    LET focused == targetDrillDown
    IN /\ Len(focused) <= 1
       /\ \A k \in 1..Len(focused) : focused[k].id = drillDownTarget
       /\ focused = SelectSeq(UnfocusedDrillDown,
                              LAMBDA row : row.id = drillDownTarget)

\* C17's case: target p3-t1 is selected and client c2 is the one selected
\* client: of the target's two events one is filtered out, and the single
\* row counts one session of 10 trials, as the unfocused table's row does.
C17_Witness ==
  /\ drillDownTarget = "p3-t1"
  /\ filters.clientIds = <<"c2">>
  /\ Len(UnfocusedDrillDown) = 1
  /\ LET focused == targetDrillDown
     IN /\ Len(focused) = 1
        /\ focused[1].sessions = 1
        /\ focused[1].total = 10

\* C18: the selection is null or the id of a row of the Target table.
C18_SelectionResolves ==
  drillDownTarget = null \/ Resolved(allTargets, drillDownTarget) # {}

\* C18's case: a row of the drill-down table was clicked and the table now
\* shows the single row of the selected target.
C18_Witness ==
  /\ drillDownTarget = "p1-t1"
  /\ DisplayedIds = {"p1-t1"}
  /\ Resolved(allTargets, drillDownTarget) # {}

\* Every event of the filtered subset carries a target of the Target table
\* whose mastery is at least 80.
OnlyMasteredShown ==
  \A i \in 1..Len(filteredData) :
    \E t \in Resolved(allTargets, filteredData[i].targetId) : t.mastery >= 80

\* C19: a step of the "Mastered Targets" card (the selection is cleared,
\* targetIds becomes the list of the mastered ids, nothing else changes)
\* ends in a state whose filtered subset holds events of mastered targets
\* only, whatever the Target table.
C19_MasteredCard ==
  [][(/\ drillDownTarget' = null
      /\ filters' = [filters EXCEPT !.targetIds = MasteredIds]
      /\ UNCHANGED <<data, theme, clientSearch, programSearch, targetSearch>>)
       => OnlyMasteredShown']_vars

\* The values toggleFilter is called with for a key: those of the tables and
\* one that no table holds.
ToggleValues(key) ==
  {"zz"} \cup
    CASE key = "clientIds" -> {clients[i].id : i \in 1..Len(clients)}
      [] key = "programIds" -> {allPrograms[i].id : i \in 1..Len(allPrograms)}
      [] key = "targetIds" -> {allTargets[i].id : i \in 1..Len(allTargets)}
      [] key = "categories" -> {allPrograms[i].category : i \in 1..Len(allPrograms)}
      [] key = "therapists" -> {clients[i].therapist : i \in 1..Len(clients)}

\* toggleFilter(key, value) on the current filters: only field `key`
\* differs, the value's membership is flipped, and the other values of the
\* list stay, in their order.
TogglesFlip ==
  \A key \in SelectionKeys :
    \A value \in ToggleValues(key) :
      LET old == filters[key]
          new == ToggleFilter(filters, key, value)[key]
      IN /\ DiffersAt(filters, ToggleFilter(filters, key, value), key)
         /\ (value \in SetOf(new)) <=> (value \notin SetOf(old))
         /\ SelectSeq(new, LAMBDA v : v # value) = SelectSeq(old, LAMBDA v : v # value)
         /\ Len(SelectSeq(new, LAMBDA v : v = value)) <= 1

\* No selection list holds a value twice.
NoDuplicates ==
  \A key \in SelectionKeys : Len(filters[key]) = Cardinality(SetOf(filters[key]))

\* C20: toggleFilter flips the membership of its value in its list and
\* changes nothing else of the filters; a step that flips one value of one
\* list leaves the drill-down selection alone (unless it is the "Mastered
\* Targets" card); no selection list ever holds a duplicate, and with
\* clients selected activeClients is the number of distinct selected clients.
C20_ToggleFrame ==
  /\ [](TogglesFlip /\ NoDuplicates)
  /\ [](filters.clientIds # << >> =>
          stats.activeClients = Cardinality(SetOf(filters.clientIds)))
  /\ [][IsFacetToggle(filters, filters') =>
          \/ drillDownTarget' = drillDownTarget
          \/ filters' = [filters EXCEPT !.targetIds = MasteredIds]]_vars

\* C20's case: clients c2 and c1 were selected in this order after a row
\* was selected and the lower bound moved; both are still as they were, and
\* activeClients is 2.
C20_Witness ==
  /\ filters.clientIds = <<"c2", "c1">>
  /\ Truthy(drillDownTarget)
  /\ filters.minMastery = 60
  /\ stats.activeClients = 2

\* The sum of the `total` fields of a list of rows.
SumOfTotals(rows) ==
  SumAt([k \in 1..Len(rows) |-> rows[k].total], 1..Len(rows))

\* C21: with no target selected and a non-empty filtered subset whose
\* program and target ids are all in their tables, the totals of the
\* breakdown rows, the totals of the drill-down rows and the trials of the
\* last monthly point each equal the sum of correct + incorrect over the
\* filtered subset.
C21_Conservation ==
  LET subset == filteredData
      n == Len(subset)
      trials == [i \in 1..n |-> subset[i].correct + subset[i].incorrect]
  IN (/\ ~Truthy(drillDownTarget)
      /\ n > 0
      /\ \A i \in 1..n :
           /\ Resolved(allPrograms, subset[i].programId) # {}
           /\ Resolved(allTargets, subset[i].targetId) # {})
       => LET series == cumulativeGraphData
          IN /\ SumOfTotals(programBreakdown) = SumAt(trials, 1..n)
             /\ SumOfTotals(targetDrillDown) = SumAt(trials, 1..n)
             /\ Len(series) > 0
             /\ series[Len(series)].trials = SumAt(trials, 1..n)

\* C21's case: no selection, client c1 selected, and a filtered subset of
\* two events over two programs and two months with 10 trials in all: two
\* breakdown rows, two drill-down rows and a last monthly point of 10 trials.
C21_Witness ==
  /\ drillDownTarget = null
  /\ filters.clientIds = <<"c1">>
  /\ Len(filteredData) = 2
  /\ Len(programBreakdown) = 2
  /\ Len(targetDrillDown) = 2
  /\ SumOfTotals(programBreakdown) = 10
  /\ LET series == cumulativeGraphData
     IN Len(series) = 2 /\ series[2].trials = 10

=============================================================================
